---- MODULE Spec2Model ----
(***************************************************************************)
(* A model of redismq: the request/response channel of src/redismq.py      *)
(* (Channel, Sender, Receiver over a Redis server) and the worker runtime  *)
(* of src/message_queue_client.py (Consumers, send_message).               *)
(*                                                                         *)
(* Redis is a shared server: every Redis command is one atomic step.  A    *)
(* method that issues several commands outside a MULTI/EXEC pipeline       *)
(* (recv_req, get_req, ack_req, send_rsp) is several steps, and other      *)
(* clients interleave between them.                                        *)
(*                                                                         *)
(* Payloads are byte strings; they are modelled as tuples of strings       *)
(* (the text's tokens), the empty tuple being the empty string.            *)
(***************************************************************************)
EXTENDS Integers, Sequences, FiniteSets, TLC

(***************************************************************************)
(* Bounds of the model.                                                    *)
(***************************************************************************)
\* the number of send_req calls made on the channels
MaxSend == 2
\* the number of send_rsp calls made directly on a Receiver
MaxRsp == 2
\* the number of requests the clients of the worker runtime send
MaxReq == 2
\* the same, in the runs with two workers that the progress properties are checked on
MaxLiveReq == 1
\* the number of send_message calls made
MaxMsg == 2
\* the number of set_rsp_handler calls made on the Sender
MaxSet == 3

(***************************************************************************)
(* The values the calls are made with.                                     *)
(***************************************************************************)
\* channel names (one channel per service function)
Names == {"s.f", "s.g"}
\* request identifiers: the ones the direct calls are made with, and the ones
\* uuid4 hands to the clients of the worker runtime (the n-th request gets the n-th)
Ids == {"A", "B"}
Uuids == <<"u1", "u2", "u3", "u4">>
AllIds == Ids \cup {Uuids[n] : n \in 1..Len(Uuids)}
\* Python's None, as an identifier and as a payload
NoneId == "None"
None == <<"None">>
\* the Receiver objects (independent clients of the Redis server) and the
\* channel each was constructed on
Rcv == {"r1", "r2"}
RcvName == [r \in Rcv |-> "s.f"]
\* the channels the Sender objects were constructed on
SndNames == {"s.f"}
\* request payloads: the empty string, text that is not JSON, and JSON
\* objects with a "params" member
ReqPayloads == {<< >>, <<"garbage">>, <<"params", "x1">>, <<"params", "x2">>}
\* the payloads the direct send_req calls are made with
SentPayloads == {<<"params", "x1">>, <<"params", "x2">>}
\* response payloads
RspPayloads == {<<"result", "x1">>, <<"error", "handler">>}

VARIABLES
    handler_funcs, \* Consumers.handler_funcs: the functions served (one worker each)
    running,       \* Consumers.running
    timeout,       \* Consumers.timeout (seconds)
    thread,        \* per worker thread: "new", "started", "exited" or "dead"
    wpc,           \* per worker: its position in Consumers._run
    req_id,        \* per worker: _run's local req_id
    req_payload,   \* per worker: _run's local req_payload
    params,        \* per worker: _run's local params
    rsp,           \* per worker: _run's local rsp
    waitpc,        \* the caller of Consumers.wait: "idle", "joining" or "returned"
    nreq,          \* history: the requests the clients have sent
    popped,        \* history: identifiers a worker's recv_req has returned
    invoked,       \* history: identifiers whose request the handler was invoked on
    raised,        \* history: identifiers whose handler invocation raised
    wacks,         \* history: per identifier, the ack_req calls the workers made
    wsent,         \* history: per identifier, the payloads the workers sent as response
    sinceStop,     \* history: per worker, the receives begun with the flag cleared
    kv,            \* Redis string keys channel_request:<id>: id -> payload or None
    requests,      \* RQueue channel_requests:<name>, the pending list (index 1 = left)
    requestsAck,   \* RQueue channel_requests:<name>, the processing list
    responses,     \* RQueue channel_response:<name>:<id>, the pending list
    responsesAck,  \* RQueue channel_response:<name>:<id>, the processing list
    published,     \* messages published on channel_responses:<name>, in order
    rcv,           \* each receiver's call in progress (its position and locals)
    last,          \* the call that returned last, with what it returned
    nsend,         \* history: per identifier, the send_req calls that named it
    sentOK,        \* history: <<name, id, payload>> of the send_req calls that returned id
    returned,      \* history: identifiers a recv_req/get_req call has returned
    earlyAck,      \* history: identifiers ack_req was called on before they were returned
    acked,         \* history: identifiers acknowledged with success and not sent since
    nrsp,          \* history: the send_rsp calls made
    pushed,        \* history: per <<name, id, payload>>, the send_rsp that returned True
    got,           \* history: per <<name, id, payload>>, the recv_rsp/get_rsp that returned it
    written,       \* history: per identifier, the payload of the last SET of its key
    subscriber,    \* Sender.subscriber: "None" or "thread" (the thread run_in_thread made)
    channels,      \* Sender.pubsub.channels: the handler of the topic, "None" when unsubscribed
    listeners,     \* the listener threads of the Sender's pubsub that are running
    closed,        \* whether Channel.close was called on the Sender
    nset,          \* history: the set_rsp_handler calls made
    cursor,        \* the messages of the topic that were published before the pubsub's
                   \* subscription or that it has read
    notified,      \* history: <<handler, message>> of the handler calls the listeners made
    smpc,          \* per caller of send_message: its position in send_message
    sm_req_id,     \* per caller: send_message's local req_id
    sm_params,     \* per caller: send_message's argument params
    sm_rsp,        \* per caller: send_message's local rsp
    sm_ret,        \* per caller: what send_message returned
    sm_acks        \* history: per caller, the ack_rsp calls send_message made

redisVars == <<kv, requests, requestsAck, responses, responsesAck, published>>
histVars == <<nsend, sentOK, returned, earlyAck, acked, nrsp, pushed, got, written>>
workerVars == <<handler_funcs, running, timeout, thread, wpc, req_id, req_payload, params,
                rsp, waitpc>>
workerHist == <<nreq, popped, invoked, raised, wacks, wsent, sinceStop>>
pubsubVars == <<subscriber, channels, listeners, closed, nset, cursor, notified>>
callerVars == <<smpc, sm_req_id, sm_params, sm_rsp, sm_ret, sm_acks>>
vars == <<kv, requests, requestsAck, responses, responsesAck, published, rcv, last,
          nsend, sentOK, returned, earlyAck, acked, nrsp, pushed, got,
          handler_funcs, running, timeout, thread, wpc, req_id, req_payload, params,
          rsp, waitpc, nreq, popped, invoked, raised, wacks, wsent, sinceStop,
          written, subscriber, channels, listeners, closed, nset, cursor, notified,
          smpc, sm_req_id, sm_params, sm_rsp, sm_ret, sm_acks>>

RspKeys == Names \X Ids \X RspPayloads

(***************************************************************************)
(* Redis list commands.                                                    *)
(***************************************************************************)
\* LPUSH: the value becomes the leftmost element
LPush(list, v) == <<v>> \o list
\* the element RPOP / RPOPLPUSH takes: the rightmost
Rightmost(list) == list[Len(list)]
\* the list without its rightmost element
DropRight(list) == SubSeq(list, 1, Len(list) - 1)
\* the position of the first occurrence of v from the left, 0 when absent
FirstIndex(list, v) ==
    IF \E i \in 1..Len(list) : list[i] = v
    THEN CHOOSE i \in 1..Len(list) : list[i] = v /\ \A j \in 1..(i - 1) : list[j] # v
    ELSE 0
\* LREM list 1 v: the list without the first occurrence of v
LRem1(list, v) ==
    IF FirstIndex(list, v) = 0 THEN list
    ELSE SubSeq(list, 1, FirstIndex(list, v) - 1) \o
         SubSeq(list, FirstIndex(list, v) + 1, Len(list))
\* the number of occurrences of v
Count(list, v) == Cardinality({i \in 1..Len(list) : list[i] = v})

(***************************************************************************)
(* The queue primitive RQueue (package rqueue): a pending list and a       *)
(* processing list. push is LPUSH on the pending list, pop and bpop are    *)
(* RPOPLPUSH from the pending to the processing list, ack is LREM of one   *)
(* occurrence from the processing list.                                    *)
(***************************************************************************)
RQPush(pending, v) == LPush(pending, v)
RQCanPop(pending) == Len(pending) > 0
RQPopped(pending) == Rightmost(pending)
RQPopPending(pending) == DropRight(pending)
RQPopProcessing(pending, processing) == LPush(processing, Rightmost(pending))
RQAckOk(processing, v) == FirstIndex(processing, v) # 0
RQAck(processing, v) == LRem1(processing, v)

(***************************************************************************)
(* Keys. PATTERN.format('request', req_id): the payload key is made of the *)
(* identifier alone. The response queue is named by channel and identifier.*)
(***************************************************************************)
\* a key that does not depend on the identifier
RequestKeyShared(id) == "A"
RequestKey(id) == id
\* a response queue named by the channel alone
ResponseKeyShared(name, id) == <<name, "A">>
ResponseKey(name, id) == <<name, id>>

\* req_id = str(uuid.uuid4()) if not _id else _id
ReqId(_id, fresh) == IF _id = NoneId THEN fresh ELSE _id

\* what a call returned: the operation, the identifier and the payload it returned
\* (NoneId and None when it returned neither) and whether it succeeded
(***************************************************************************)
(* JSON. A Python value is a record [k, v]: the dict {k: v}; an object     *)
(* json.dumps cannot serialise has k = "object". The text of {k: v} is the *)
(* tuple <<k, v>>; any other text is not JSON.                             *)
(***************************************************************************)
PyNone == [k |-> "None", v |-> "None"]
IsJson(text) == Len(text) = 2 /\ text # None
\* json.loads(text), for a text that is JSON
Loads(text) == [k |-> text[1], v |-> text[2]]
\* whether json.dumps(value) returns (it raises TypeError otherwise)
Serialisable(value) == value.k # "object"
\* json.dumps(value), for a value it serialises
Dumps(value) == <<value.k, value.v>>
\* a protobuf string field: None is sent as the empty string
Wire(text) == IF text = None THEN << >> ELSE text
\* Python's truth value of a string
Truthy(text) == text # << >> /\ text # None

\* the callers of send_message (each makes one call)
Callers == {"c1", "c2"}
\* the channel (service, function) each caller sends its message to
CallerName == [c \in Callers |-> "s.f"]
\* the parameters send_message is called with
Params == {"x1", "x2"}
\* the callbacks set_rsp_handler is called with
Handlers == {"h1", "h2"}

\* the values Consumers is constructed with for timeout
Timeouts == {0, 1}
\* what a call of the handler function does: it returns a result (here the
\* parameters, echoed), raises an exception, or returns an object that json.dumps
\* cannot serialise
Outcomes == {"return", "raise", "object"}

Call(op, id, val, ok) == [op |-> op, id |-> id, val |-> val, ok |-> ok]

Idle == [pc |-> "idle", name |-> "s.f", id |-> NoneId, op |-> "none"]

Total(f) == LET RECURSIVE Sum(_)
                Sum(S) == IF S = {} THEN 0
                          ELSE LET x == CHOOSE x \in S : TRUE IN f[x] + Sum(S \ {x})
            IN Sum(DOMAIN f)

Constructed ==
    /\ kv = [i \in AllIds |-> None]
    /\ requests = [n \in Names |-> << >>]
    /\ requestsAck = [n \in Names |-> << >>]
    /\ responses = [k \in Names \X AllIds |-> << >>]
    /\ responsesAck = [k \in Names \X AllIds |-> << >>]
    /\ published = << >>
    /\ rcv = [r \in Rcv |-> Idle]
    /\ last = Call("none", NoneId, None, FALSE)
    /\ nsend = [i \in Ids |-> 0]
    /\ sentOK = {}
    /\ returned = {}
    /\ earlyAck = {}
    /\ acked = {}
    /\ nrsp = 0
    /\ pushed = [k \in RspKeys |-> 0]
    /\ got = [k \in RspKeys |-> 0]
    /\ running = FALSE
    /\ thread = [w \in Names |-> "new"]
    /\ wpc = [w \in Names |-> "loop"]
    /\ req_id = [w \in Names |-> NoneId]
    /\ req_payload = [w \in Names |-> None]
    /\ params = [w \in Names |-> NoneId]
    /\ rsp = [w \in Names |-> PyNone]
    /\ waitpc = "idle"
    /\ nreq = 0
    /\ popped = {}
    /\ invoked = {}
    /\ raised = {}
    /\ wacks = [i \in AllIds |-> 0]
    /\ wsent = [i \in AllIds |-> << >>]
    /\ sinceStop = [w \in Names |-> 0]
    /\ written = [i \in Ids |-> None]
    /\ subscriber = "None"
    /\ channels = "None"
    /\ listeners = 0
    /\ closed = FALSE
    /\ nset = 0
    /\ cursor = 0
    /\ notified = << >>
    /\ smpc = [c \in Callers |-> "idle"]
    /\ sm_req_id = [c \in Callers |-> NoneId]
    /\ sm_params = [c \in Callers |-> NoneId]
    /\ sm_rsp = [c \in Callers |-> None]
    /\ sm_ret = [c \in Callers |-> PyNone]
    /\ sm_acks = [c \in Callers |-> 0]

\* Consumers(service_name, handler_funcs): timeout defaults to 1
DefaultTimeout == 1

Init == Constructed /\ timeout = DefaultTimeout /\ handler_funcs = Names

(***************************************************************************)
(* Sender.send_req: SET and the queue's push in one MULTI/EXEC pipeline.   *)
(* ok1 and ok2 are the two commands' results; a command that fails has no  *)
(* effect, and EXEC does not undo the other one.                           *)
(***************************************************************************)
\* a send_req that keeps the payload already stored under the identifier (SET NX)
send_req_keep(name, _id, fresh, _value, ok1, ok2) ==
    LET id == ReqId(_id, fresh) IN
    /\ Total(nsend) < MaxSend
    /\ kv' = IF ok1 /\ kv[RequestKey(id)] = None
             THEN [kv EXCEPT ![RequestKey(id)] = _value] ELSE kv
    /\ requests' = IF ok2 THEN [requests EXCEPT ![name] = RQPush(@, id)]
                   ELSE requests
    /\ last' = Call("send_req", IF ok1 /\ ok2 THEN id ELSE NoneId, None, ok1 /\ ok2)
    /\ nsend' = [nsend EXCEPT ![id] = @ + 1]
    /\ sentOK' = IF ok1 /\ ok2 THEN sentOK \cup {<<name, id, _value>>} ELSE sentOK
    /\ acked' = acked \ {id}
    /\ written' = IF ok1 THEN [written EXCEPT ![id] = _value] ELSE written
    /\ UNCHANGED <<requestsAck, responses, responsesAck, published, rcv,
                   returned, earlyAck, nrsp, pushed, got>>
    /\ UNCHANGED <<workerVars, workerHist, pubsubVars, callerVars>>

send_req(name, _id, fresh, _value, ok1, ok2) ==
    LET id == ReqId(_id, fresh) IN
    /\ Total(nsend) < MaxSend
    /\ kv' = IF ok1 THEN [kv EXCEPT ![RequestKey(id)] = _value] ELSE kv
    /\ requests' = IF ok2 THEN [requests EXCEPT ![name] = RQPush(@, id)]
                   ELSE requests
    /\ last' = Call("send_req", IF ok1 /\ ok2 THEN id ELSE NoneId, None, ok1 /\ ok2)
    /\ nsend' = [nsend EXCEPT ![id] = @ + 1]
    /\ sentOK' = IF ok1 /\ ok2 THEN sentOK \cup {<<name, id, _value>>} ELSE sentOK
    /\ acked' = acked \ {id}
    /\ written' = IF ok1 THEN [written EXCEPT ![id] = _value] ELSE written
    /\ UNCHANGED <<requestsAck, responses, responsesAck, published, rcv,
                   returned, earlyAck, nrsp, pushed, got>>
    /\ UNCHANGED <<workerVars, workerHist, pubsubVars, callerVars>>

SendReq ==
    \E name \in SndNames, _id \in Ids \cup {NoneId}, _value \in SentPayloads,
       ok1 \in BOOLEAN, ok2 \in BOOLEAN :
        \E fresh \in {i \in Ids : nsend[i] = 0 \/ _id # NoneId} :
            send_req(name, _id, fresh, _value, ok1, ok2)

(***************************************************************************)
(* Receiver.recv_req (blocking, bpop) and Receiver.get_req (pop): the pop  *)
(* moves the identifier to the processing list, a second command reads the *)
(* payload.  On an empty queue recv_req returns (None, None) when its      *)
(* timeout expires (it blocks for ever with _to = 0) and get_req returns   *)
(* None.                                                                   *)
(***************************************************************************)
\* a receive that reads the next identifier and leaves it in the request queue
recv_req_peek(r, name, op, _to) ==
    /\ rcv[r].pc = "idle"
    /\ IF RQCanPop(requests[name])
       THEN /\ requestsAck' = [requestsAck EXCEPT
                                  ![name] = RQPopProcessing(requests[name], @)]
            /\ rcv' = [rcv EXCEPT ![r] = [pc |-> "get", name |-> name,
                                          id |-> RQPopped(requests[name]), op |-> op]]
            /\ UNCHANGED <<last, requests>>
       ELSE /\ op = "recv_req" => _to > 0
            /\ last' = Call(op, NoneId, None, FALSE)
            /\ UNCHANGED <<requests, requestsAck, rcv>>
    /\ UNCHANGED <<kv, responses, responsesAck, published>>
    /\ UNCHANGED histVars
    /\ UNCHANGED <<workerVars, workerHist, pubsubVars, callerVars>>

recv_req_pop(r, name, op, _to) ==
    /\ rcv[r].pc = "idle"
    /\ IF RQCanPop(requests[name])
       THEN /\ requests' = [requests EXCEPT ![name] = RQPopPending(@)]
            /\ requestsAck' = [requestsAck EXCEPT
                                  ![name] = RQPopProcessing(requests[name], @)]
            /\ rcv' = [rcv EXCEPT ![r] = [pc |-> "get", name |-> name,
                                          id |-> RQPopped(requests[name]), op |-> op]]
            /\ UNCHANGED last
       ELSE /\ op = "recv_req" => _to > 0
            /\ last' = Call(op, NoneId, None, FALSE)
            /\ UNCHANGED <<requests, requestsAck, rcv>>
    /\ UNCHANGED <<kv, responses, responsesAck, published>>
    /\ UNCHANGED histVars
    /\ UNCHANGED <<workerVars, workerHist, pubsubVars, callerVars>>

\* return req_id, self.redis.get(PATTERN.format('request', req_id))
recv_req_get(r) ==
    /\ rcv[r].pc = "get"
    /\ last' = Call(rcv[r].op, rcv[r].id, kv[RequestKey(rcv[r].id)], TRUE)
    /\ returned' = returned \cup {rcv[r].id}
    /\ rcv' = [rcv EXCEPT ![r] = Idle]
    /\ UNCHANGED redisVars
    /\ UNCHANGED <<nsend, sentOK, earlyAck, acked, nrsp, pushed, got, written>>
    /\ UNCHANGED <<workerVars, workerHist, pubsubVars, callerVars>>

RecvReq ==
    \E r \in Rcv, op \in {"recv_req", "get_req"}, _to \in {0, 1} :
        recv_req_pop(r, RcvName[r], op, _to)

RecvReqGet == \E r \in Rcv : recv_req_get(r)

(***************************************************************************)
(* Receiver.ack_req: the queue's ack, and only when it succeeds the DEL of *)
(* the payload key; the result is bool(DEL's count).                       *)
(***************************************************************************)
\* an ack_req that deletes the payload whatever the queue acknowledgment returned
ack_req_ack_del(r, name, _id) ==
    /\ rcv[r].pc = "idle"
    /\ IF RQAckOk(requestsAck[name], _id)
       THEN /\ requestsAck' = [requestsAck EXCEPT ![name] = RQAck(@, _id)]
            /\ rcv' = [rcv EXCEPT ![r] = [pc |-> "del", name |-> name, id |-> _id,
                                          op |-> "ack_req"]]
            /\ UNCHANGED <<last, kv>>
       ELSE /\ last' = Call("ack_req", NoneId, None, FALSE)
            /\ kv' = [kv EXCEPT ![RequestKey(_id)] = None]
            /\ UNCHANGED <<requestsAck, rcv>>
    /\ earlyAck' = IF _id \in returned THEN earlyAck ELSE earlyAck \cup {_id}
    /\ UNCHANGED <<requests, responses, responsesAck, published>>
    /\ UNCHANGED <<nsend, sentOK, returned, acked, nrsp, pushed, got, written>>
    /\ UNCHANGED <<workerVars, workerHist, pubsubVars, callerVars>>

ack_req_ack(r, name, _id) ==
    /\ rcv[r].pc = "idle"
    /\ IF RQAckOk(requestsAck[name], _id)
       THEN /\ requestsAck' = [requestsAck EXCEPT ![name] = RQAck(@, _id)]
            /\ rcv' = [rcv EXCEPT ![r] = [pc |-> "del", name |-> name, id |-> _id,
                                          op |-> "ack_req"]]
            /\ UNCHANGED last
       ELSE /\ last' = Call("ack_req", NoneId, None, FALSE)
            /\ UNCHANGED <<requestsAck, rcv>>
    /\ earlyAck' = IF _id \in returned THEN earlyAck ELSE earlyAck \cup {_id}
    /\ UNCHANGED <<kv, requests, responses, responsesAck, published>>
    /\ UNCHANGED <<nsend, sentOK, returned, acked, nrsp, pushed, got, written>>
    /\ UNCHANGED <<workerVars, workerHist, pubsubVars, callerVars>>

\* an acknowledgment that reports success and leaves the payload stored
ack_req_del_keep(r) ==
    /\ rcv[r].pc = "del"
    /\ last' = Call("ack_req", NoneId, None, TRUE)
    /\ acked' = acked \cup {rcv[r].id}
    /\ rcv' = [rcv EXCEPT ![r] = Idle]
    /\ UNCHANGED redisVars
    /\ UNCHANGED <<nsend, sentOK, returned, earlyAck, nrsp, pushed, got, written>>
    /\ UNCHANGED <<workerVars, workerHist, pubsubVars, callerVars>>

ack_req_del(r) ==
    /\ rcv[r].pc = "del"
    /\ kv' = [kv EXCEPT ![RequestKey(rcv[r].id)] = None]
    /\ last' = Call("ack_req", NoneId, None, kv[RequestKey(rcv[r].id)] # None)
    /\ acked' = IF kv[RequestKey(rcv[r].id)] # None THEN acked \cup {rcv[r].id}
                ELSE acked
    /\ rcv' = [rcv EXCEPT ![r] = Idle]
    /\ UNCHANGED <<requests, requestsAck, responses, responsesAck, published>>
    /\ UNCHANGED <<nsend, sentOK, returned, earlyAck, nrsp, pushed, got, written>>
    /\ UNCHANGED <<workerVars, workerHist, pubsubVars, callerVars>>

AckReq == \E r \in Rcv, _id \in Ids : ack_req_ack(r, RcvName[r], _id)

AckReqDel == \E r \in Rcv : ack_req_del(r)

(***************************************************************************)
(* Receiver.send_rsp: the push onto the identifier's response queue, and   *)
(* only when it succeeds the PUBLISH of the identifier.                    *)
(***************************************************************************)
\* a send_rsp that publishes the notification whatever the push returned
send_rsp_push_publish(r, name, _id, _value, ok) ==
    /\ rcv[r].pc = "idle"
    /\ nrsp < MaxRsp
    /\ nrsp' = nrsp + 1
    /\ IF ok
       THEN /\ responses' = [responses EXCEPT ![ResponseKey(name, _id)] =
                                 RQPush(@, _value)]
            /\ rcv' = [rcv EXCEPT ![r] = [pc |-> "pub", name |-> name, id |-> _id,
                                          op |-> "send_rsp"]]
            /\ pushed' = [pushed EXCEPT ![<<name, _id, _value>>] = @ + 1]
            /\ UNCHANGED <<last, published>>
       ELSE /\ last' = Call("send_rsp", NoneId, None, FALSE)
            /\ published' = Append(published, <<name, _id>>)
            /\ UNCHANGED <<responses, rcv, pushed>>
    /\ UNCHANGED <<kv, requests, requestsAck, responsesAck>>
    /\ UNCHANGED <<nsend, sentOK, returned, earlyAck, acked, got, written>>
    /\ UNCHANGED <<workerVars, workerHist, pubsubVars, callerVars>>

send_rsp_push(r, name, _id, _value, ok) ==
    /\ rcv[r].pc = "idle"
    /\ nrsp < MaxRsp
    /\ nrsp' = nrsp + 1
    /\ IF ok
       THEN /\ responses' = [responses EXCEPT ![ResponseKey(name, _id)] =
                                 RQPush(@, _value)]
            /\ rcv' = [rcv EXCEPT ![r] = [pc |-> "pub", name |-> name, id |-> _id,
                                          op |-> "send_rsp"]]
            /\ pushed' = [pushed EXCEPT ![<<name, _id, _value>>] = @ + 1]
            /\ UNCHANGED last
       ELSE /\ last' = Call("send_rsp", NoneId, None, FALSE)
            /\ UNCHANGED <<responses, rcv, pushed>>
    /\ UNCHANGED <<kv, requests, requestsAck, responsesAck, published>>
    /\ UNCHANGED <<nsend, sentOK, returned, earlyAck, acked, got, written>>
    /\ UNCHANGED <<workerVars, workerHist, pubsubVars, callerVars>>

send_rsp_publish(r) ==
    /\ rcv[r].pc = "pub"
    /\ published' = Append(published, <<rcv[r].name, rcv[r].id>>)
    /\ last' = Call("send_rsp", NoneId, None, TRUE)
    /\ rcv' = [rcv EXCEPT ![r] = Idle]
    /\ UNCHANGED <<kv, requests, requestsAck, responses, responsesAck>>
    /\ UNCHANGED histVars
    /\ UNCHANGED <<workerVars, workerHist, pubsubVars, callerVars>>

SendRsp ==
    \E r \in Rcv, _id \in Ids, _value \in RspPayloads, ok \in BOOLEAN :
        send_rsp_push(r, RcvName[r], _id, _value, ok)

SendRspPublish == \E r \in Rcv : send_rsp_publish(r)

(***************************************************************************)
(* Sender.recv_rsp (bpop) and Sender.get_rsp (pop) on the identifier's     *)
(* response queue; Sender.ack_rsp is the queue's ack.                      *)
(***************************************************************************)
\* a retrieval that reads the response and leaves it in the queue
recv_rsp_peek(name, _id, op, _to) ==
    /\ IF RQCanPop(responses[ResponseKey(name, _id)])
       THEN /\ last' = Call(op, _id, RQPopped(responses[ResponseKey(name, _id)]), TRUE)
            /\ got' = [got EXCEPT
                          ![<<name, _id, RQPopped(responses[ResponseKey(name, _id)])>>] =
                              @ + 1]
       ELSE /\ op = "recv_rsp" => _to > 0
            /\ last' = Call(op, NoneId, None, FALSE)
            /\ UNCHANGED got
    /\ UNCHANGED redisVars
    /\ UNCHANGED <<rcv, nsend, sentOK, returned, earlyAck, acked, nrsp, pushed, written>>
    /\ UNCHANGED <<workerVars, workerHist, pubsubVars, callerVars>>

recv_rsp(name, _id, op, _to) ==
    /\ IF RQCanPop(responses[ResponseKey(name, _id)])
       THEN /\ responses' = [responses EXCEPT ![ResponseKey(name, _id)] =
                                 RQPopPending(@)]
            /\ responsesAck' = [responsesAck EXCEPT ![ResponseKey(name, _id)] =
                                    RQPopProcessing(responses[ResponseKey(name, _id)], @)]
            /\ last' = Call(op, _id, RQPopped(responses[ResponseKey(name, _id)]), TRUE)
            /\ got' = [got EXCEPT
                          ![<<name, _id, RQPopped(responses[ResponseKey(name, _id)])>>] =
                              @ + 1]
       ELSE /\ op = "recv_rsp" => _to > 0
            /\ last' = Call(op, NoneId, None, FALSE)
            /\ UNCHANGED <<responses, responsesAck, got>>
    /\ UNCHANGED <<kv, requests, requestsAck, published, rcv>>
    /\ UNCHANGED <<nsend, sentOK, returned, earlyAck, acked, nrsp, pushed, written>>
    /\ UNCHANGED <<workerVars, workerHist, pubsubVars, callerVars>>

RecvRsp ==
    \E name \in SndNames, _id \in Ids, op \in {"recv_rsp", "get_rsp"}, _to \in {0, 1} :
        recv_rsp(name, _id, op, _to)

ack_rsp(name, _id, _payload) ==
    /\ responsesAck' = [responsesAck EXCEPT ![ResponseKey(name, _id)] =
                            RQAck(@, _payload)]
    /\ last' = Call("ack_rsp", NoneId, None,
                    RQAckOk(responsesAck[ResponseKey(name, _id)], _payload))
    /\ UNCHANGED <<kv, requests, requestsAck, responses, published, rcv>>
    /\ UNCHANGED histVars
    /\ UNCHANGED <<workerVars, workerHist, pubsubVars, callerVars>>

AckRsp == \E name \in SndNames, _id \in Ids, _payload \in RspPayloads :
              ack_rsp(name, _id, _payload)

\* the request side of a channel: Sender.send_req and the Receiver's request calls
Next ==
    \/ SendReq
    \/ RecvReq
    \/ RecvReqGet
    \/ AckReq
    \/ AckReqDel

Spec == Init /\ [][Next]_vars

\* Two channels that share identifiers: a Sender on each channel, called with
\* identifiers its caller supplies, and a Receiver on each channel.
RcvNameX == [r \in Rcv |-> IF r = "r1" THEN "s.f" ELSE "s.g"]
SendReqX ==
    \E name \in Names, _id \in Ids, _value \in SentPayloads :
        send_req(name, _id, _id, _value, TRUE, TRUE)
RecvReqX == \E r \in Rcv, _to \in {0, 1} : recv_req_pop(r, RcvNameX[r], "recv_req", _to)
AckReqX == \E r \in Rcv, _id \in Ids : ack_req_ack(r, RcvNameX[r], _id)

NextX ==
    \/ SendReqX
    \/ RecvReqX
    \/ RecvReqGet
    \/ AckReqX
    \/ AckReqDel

SpecX == Init /\ [][NextX]_vars

\* the response side of a channel: Receiver.send_rsp and the Sender's response calls
NextRsp ==
    \/ SendRsp
    \/ SendRspPublish
    \/ RecvRsp
    \/ AckRsp

SpecRsp == Init /\ [][NextRsp]_vars

(***************************************************************************)
(* The worker runtime of message_queue_client.py. MQ is the client of the  *)
(* remote facade: each MQ call is one remote call, served on the channel   *)
(* of (service, function) by the Sender/Receiver operation of the same     *)
(* name; the facade answers with protobuf strings, so None arrives as "".  *)
(* There is one worker thread per handler function, named by its channel.  *)
(***************************************************************************)
directVars == <<rcv, nsend, returned, earlyAck, acked, nrsp, pushed, got, written,
                subscriber, channels, listeners, closed, nset, cursor, notified>>

\* Consumers.start: sets the flag and starts the threads; Thread.start raises
\* RuntimeError on a thread that was started before
start ==
    /\ running' = TRUE
    /\ thread' = IF \A w \in handler_funcs : thread[w] = "new"
                 THEN [w \in Names |-> IF w \in handler_funcs THEN "started" ELSE "new"]
                 ELSE thread
    /\ UNCHANGED <<handler_funcs, timeout, wpc, req_id, req_payload, params, rsp, waitpc>>
    /\ UNCHANGED <<redisVars, directVars, callerVars, last, sentOK, workerHist>>

\* Consumers.stop: clears the flag
stop ==
    /\ running' = FALSE
    /\ sinceStop' = [w \in Names |-> 0]
    /\ UNCHANGED <<handler_funcs, timeout, thread, wpc, req_id, req_payload, params, rsp,
                   waitpc>>
    /\ UNCHANGED <<redisVars, directVars, callerVars, last, sentOK>>
    /\ UNCHANGED <<nreq, popped, invoked, raised, wacks, wsent>>

\* Consumers.wait: joins every thread (Thread.join raises RuntimeError on a
\* thread that was never started)
wait_join ==
    /\ waitpc = "idle"
    /\ \A w \in handler_funcs : thread[w] # "new"
    /\ waitpc' = "joining"
    /\ UNCHANGED <<handler_funcs, running, timeout, thread, wpc, req_id, req_payload, params, rsp>>
    /\ UNCHANGED <<redisVars, directVars, callerVars, last, sentOK, workerHist>>

wait_return ==
    /\ waitpc = "joining"
    /\ \A w \in handler_funcs : thread[w] \in {"exited", "dead"}
    /\ waitpc' = "returned"
    /\ UNCHANGED <<handler_funcs, running, timeout, thread, wpc, req_id, req_payload, params, rsp>>
    /\ UNCHANGED <<redisVars, directVars, callerVars, last, sentOK, workerHist>>

\* a loop that does not test the flag
run_loop_forever(w) ==
    /\ thread[w] = "started" /\ wpc[w] = "loop"
    /\ wpc' = [wpc EXCEPT ![w] = "recv"]
    /\ UNCHANGED <<handler_funcs, running, timeout, thread, req_id, req_payload, params,
                   rsp, waitpc>>
    /\ UNCHANGED <<redisVars, directVars, callerVars, last, sentOK, workerHist>>

\* _run: while self.running
run_loop(w) ==
    /\ thread[w] = "started" /\ wpc[w] = "loop"
    /\ IF running
       THEN wpc' = [wpc EXCEPT ![w] = "recv"] /\ UNCHANGED thread
       ELSE thread' = [thread EXCEPT ![w] = "exited"] /\ UNCHANGED wpc
    /\ UNCHANGED <<handler_funcs, running, timeout, req_id, req_payload, params, rsp,
                   waitpc>>
    /\ UNCHANGED <<redisVars, directVars, callerVars, last, sentOK, workerHist>>

\* _run: req_id, req_payload = MQ.recv_req(...); if not req_payload: continue
\* (with no request the call returns ("", "") when the timeout expires, and
\* blocks for ever when the timeout is 0)
run_recv(w) ==
    /\ thread[w] = "started" /\ wpc[w] = "recv"
    /\ IF RQCanPop(requests[w])
       THEN LET id == RQPopped(requests[w])
                payload == Wire(kv[RequestKey(id)])
            IN /\ requests' = [requests EXCEPT ![w] = RQPopPending(@)]
               /\ requestsAck' = [requestsAck EXCEPT
                                     ![w] = RQPopProcessing(requests[w], @)]
               /\ popped' = popped \cup {id}
               /\ IF Truthy(payload)
                  THEN /\ req_id' = [req_id EXCEPT ![w] = id]
                       /\ req_payload' = [req_payload EXCEPT ![w] = payload]
                       /\ wpc' = [wpc EXCEPT ![w] = "decode"]
                  ELSE /\ wpc' = [wpc EXCEPT ![w] = "loop"]
                       /\ UNCHANGED <<req_id, req_payload>>
       ELSE /\ timeout > 0
            /\ wpc' = [wpc EXCEPT ![w] = "loop"]
            /\ UNCHANGED <<requests, requestsAck, popped, req_id, req_payload>>
    /\ sinceStop' = [sinceStop EXCEPT ![w] = IF running \/ @ >= 2 THEN @ ELSE @ + 1]
    /\ UNCHANGED <<handler_funcs, running, timeout, thread, params, rsp, waitpc>>
    /\ UNCHANGED <<kv, responses, responsesAck, published>>
    /\ UNCHANGED <<directVars, callerVars, last, sentOK>>
    /\ UNCHANGED <<nreq, invoked, raised, wacks, wsent>>

\* a decoding step whose failure is noted and followed by the handler call
run_decode_then_call(w) ==
    /\ thread[w] = "started" /\ wpc[w] = "decode"
    /\ params' = [params EXCEPT ![w] =
                     IF IsJson(req_payload[w]) /\ Loads(req_payload[w]).k = "params"
                     THEN Loads(req_payload[w]).v ELSE NoneId]
    /\ wpc' = [wpc EXCEPT ![w] = "call"]
    /\ UNCHANGED <<handler_funcs, running, timeout, thread, req_id, req_payload, rsp,
                   waitpc>>
    /\ UNCHANGED <<redisVars, directVars, callerVars, last, sentOK, workerHist>>

\* an iteration that tests the flag again once it has received a request, and
\* leaves the loop when the flag is cleared
run_decode_or_exit(w) ==
    /\ thread[w] = "started" /\ wpc[w] = "decode"
    /\ IF ~running
       THEN /\ thread' = [thread EXCEPT ![w] = "exited"]
            /\ UNCHANGED <<params, wpc, rsp>>
       ELSE /\ UNCHANGED thread
            /\ IF IsJson(req_payload[w]) /\ Loads(req_payload[w]).k = "params"
               THEN /\ params' = [params EXCEPT ![w] = Loads(req_payload[w]).v]
                    /\ wpc' = [wpc EXCEPT ![w] = "call"]
                    /\ UNCHANGED rsp
               ELSE /\ rsp' = [rsp EXCEPT ![w] = [k |-> "error", v |-> "parse"]]
                    /\ wpc' = [wpc EXCEPT ![w] = "ack"]
                    /\ UNCHANGED params
    /\ UNCHANGED <<handler_funcs, running, timeout, req_id, req_payload, waitpc>>
    /\ UNCHANGED <<redisVars, directVars, callerVars, last, sentOK, workerHist>>

\* _run: params = json.loads(req_payload)['params'], and the except branch
run_decode(w) ==
    /\ thread[w] = "started" /\ wpc[w] = "decode"
    /\ IF IsJson(req_payload[w]) /\ Loads(req_payload[w]).k = "params"
       THEN /\ params' = [params EXCEPT ![w] = Loads(req_payload[w]).v]
            /\ wpc' = [wpc EXCEPT ![w] = "call"]
            /\ UNCHANGED rsp
       ELSE /\ rsp' = [rsp EXCEPT ![w] = [k |-> "error", v |-> "parse"]]
            /\ wpc' = [wpc EXCEPT ![w] = "ack"]
            /\ UNCHANGED params
    /\ UNCHANGED <<handler_funcs, running, timeout, thread, req_id, req_payload, waitpc>>
    /\ UNCHANGED <<redisVars, directVars, callerVars, last, sentOK, workerHist>>

\* a handler call with no except branch: the exception ends the thread
run_call_uncaught(w, outcome) ==
    /\ thread[w] = "started" /\ wpc[w] = "call"
    /\ invoked' = invoked \cup {req_id[w]}
    /\ raised' = IF outcome = "raise" THEN raised \cup {req_id[w]} ELSE raised
    /\ IF outcome = "raise"
       THEN /\ thread' = [thread EXCEPT ![w] = "dead"]
            /\ rsp' = [rsp EXCEPT ![w] = [k |-> "error", v |-> "handler"]]
            /\ UNCHANGED wpc
       ELSE /\ rsp' = [rsp EXCEPT ![w] =
                         [k |-> IF outcome = "return" THEN "result" ELSE "object",
                          v |-> params[w]]]
            /\ wpc' = [wpc EXCEPT ![w] = "ack"]
            /\ UNCHANGED thread
    /\ UNCHANGED <<handler_funcs, running, timeout, req_id, req_payload, params, waitpc>>
    /\ UNCHANGED <<redisVars, directVars, callerVars, last, sentOK>>
    /\ UNCHANGED <<nreq, popped, wacks, wsent, sinceStop>>

\* _run: rsp = handler_func(params), and the except branch
run_call(w, outcome) ==
    /\ thread[w] = "started" /\ wpc[w] = "call"
    /\ invoked' = invoked \cup {req_id[w]}
    /\ raised' = IF outcome = "raise" THEN raised \cup {req_id[w]} ELSE raised
    /\ rsp' = [rsp EXCEPT ![w] =
                  CASE outcome = "return" -> [k |-> "result", v |-> params[w]]
                    [] outcome = "raise" -> [k |-> "error", v |-> "handler"]
                    [] outcome = "object" -> [k |-> "object", v |-> params[w]]]
    /\ wpc' = [wpc EXCEPT ![w] = "ack"]
    /\ UNCHANGED <<handler_funcs, running, timeout, thread, req_id, req_payload, params,
                   waitpc>>
    /\ UNCHANGED <<redisVars, directVars, callerVars, last, sentOK>>
    /\ UNCHANGED <<nreq, popped, wacks, wsent, sinceStop>>

\* an acknowledgment made only for a request that was handled without error
run_ack_on_success(w) ==
    /\ thread[w] = "started" /\ wpc[w] = "ack"
    /\ IF rsp[w].k # "error" /\ RQAckOk(requestsAck[w], req_id[w])
       THEN /\ requestsAck' = [requestsAck EXCEPT ![w] = RQAck(@, req_id[w])]
            /\ kv' = [kv EXCEPT ![RequestKey(req_id[w])] = None]
       ELSE UNCHANGED <<requestsAck, kv>>
    /\ wacks' = [wacks EXCEPT ![req_id[w]] = IF rsp[w].k # "error" THEN @ + 1 ELSE @]
    /\ wpc' = [wpc EXCEPT ![w] = "send"]
    /\ UNCHANGED <<handler_funcs, running, timeout, thread, req_id, req_payload, params,
                   rsp, waitpc>>
    /\ UNCHANGED <<requests, responses, responsesAck, published>>
    /\ UNCHANGED <<directVars, callerVars, last, sentOK>>
    /\ UNCHANGED <<nreq, popped, invoked, raised, wsent, sinceStop>>

\* _run: MQ.ack_req(service, function, req_id)
run_ack(w) ==
    /\ thread[w] = "started" /\ wpc[w] = "ack"
    /\ IF RQAckOk(requestsAck[w], req_id[w])
       THEN /\ requestsAck' = [requestsAck EXCEPT ![w] = RQAck(@, req_id[w])]
            /\ kv' = [kv EXCEPT ![RequestKey(req_id[w])] = None]
       ELSE UNCHANGED <<requestsAck, kv>>
    /\ wacks' = [wacks EXCEPT ![req_id[w]] = @ + 1]
    /\ wpc' = [wpc EXCEPT ![w] = "send"]
    /\ UNCHANGED <<handler_funcs, running, timeout, thread, req_id, req_payload, params,
                   rsp, waitpc>>
    /\ UNCHANGED <<requests, responses, responsesAck, published>>
    /\ UNCHANGED <<directVars, callerVars, last, sentOK>>
    /\ UNCHANGED <<nreq, popped, invoked, raised, wsent, sinceStop>>

\* _run: MQ.send_rsp(service, function, req_id, json.dumps(rsp)); json.dumps
\* raises TypeError, outside any try, on a result it cannot serialise. The
\* locals are dead once the iteration ends and are reset.
run_send(w) ==
    /\ thread[w] = "started" /\ wpc[w] = "send"
    /\ IF Serialisable(rsp[w])
       THEN /\ responses' = [responses EXCEPT ![ResponseKey(w, req_id[w])] =
                                 RQPush(@, Dumps(rsp[w]))]
            /\ published' = Append(published, <<w, req_id[w]>>)
            /\ wsent' = [wsent EXCEPT ![req_id[w]] = Append(@, Dumps(rsp[w]))]
            /\ wpc' = [wpc EXCEPT ![w] = "loop"]
            /\ req_id' = [req_id EXCEPT ![w] = NoneId]
            /\ req_payload' = [req_payload EXCEPT ![w] = None]
            /\ params' = [params EXCEPT ![w] = NoneId]
            /\ rsp' = [rsp EXCEPT ![w] = PyNone]
            /\ UNCHANGED thread
       ELSE /\ thread' = [thread EXCEPT ![w] = "dead"]
            /\ UNCHANGED <<responses, published, wsent, wpc, req_id, req_payload,
                           params, rsp>>
    /\ UNCHANGED <<handler_funcs, running, timeout, waitpc>>
    /\ UNCHANGED <<kv, requests, requestsAck, responsesAck>>
    /\ UNCHANGED <<directVars, callerVars, last, sentOK>>
    /\ UNCHANGED <<nreq, popped, invoked, raised, wacks, sinceStop>>

\* MQ.send_req(service, function, payload): the identifier is a fresh uuid4
mq_send_req(name, payload, max) ==
    /\ nreq < max
    /\ nreq' = nreq + 1
    /\ kv' = [kv EXCEPT ![RequestKey(Uuids[nreq + 1])] = payload]
    /\ requests' = [requests EXCEPT ![name] = RQPush(@, Uuids[nreq + 1])]
    /\ sentOK' = sentOK \cup {<<name, Uuids[nreq + 1], payload>>}
    /\ UNCHANGED workerVars
    /\ UNCHANGED <<requestsAck, responses, responsesAck, published>>
    /\ UNCHANGED <<directVars, callerVars, last>>
    /\ UNCHANGED <<popped, invoked, raised, wacks, wsent, sinceStop>>

\* MQ.recv_rsp(service, function, req_id), when a response is there
mq_recv_rsp(name, id) ==
    /\ RQCanPop(responses[ResponseKey(name, id)])
    /\ responses' = [responses EXCEPT ![ResponseKey(name, id)] = RQPopPending(@)]
    /\ responsesAck' = [responsesAck EXCEPT ![ResponseKey(name, id)] =
                            RQPopProcessing(responses[ResponseKey(name, id)], @)]
    /\ last' = Call("recv_rsp", id, RQPopped(responses[ResponseKey(name, id)]), TRUE)
    /\ UNCHANGED workerVars
    /\ UNCHANGED <<kv, requests, requestsAck, published>>
    /\ UNCHANGED <<directVars, callerVars, sentOK, workerHist>>

Start == start
Stop == stop
WaitJoin == wait_join
WaitReturn == wait_return
RunLoop == \E w \in Names : run_loop(w)
RunRecv == \E w \in Names : run_recv(w)
RunDecode == \E w \in Names : run_decode(w)
RunCall == \E w \in Names, outcome \in Outcomes : run_call(w, outcome)
RunAck == \E w \in Names : run_ack(w)
RunSend == \E w \in Names : run_send(w)
MqSendReq ==
    \E name \in handler_funcs, payload \in ReqPayloads : mq_send_req(name, payload, MaxReq)
MqSendReqL ==
    \E name \in handler_funcs, payload \in ReqPayloads :
        mq_send_req(name, payload, MaxLiveReq)
MqRecvRsp == \E name \in handler_funcs, n \in 1..nreq : mq_recv_rsp(name, Uuids[n])

\* everything one worker thread does
Worker(w) ==
    \/ run_loop(w)
    \/ run_recv(w)
    \/ run_decode(w)
    \/ \E outcome \in Outcomes : run_call(w, outcome)
    \/ run_ack(w)
    \/ run_send(w)

NextW ==
    \/ Start
    \/ Stop
    \/ WaitJoin
    \/ WaitReturn
    \/ RunLoop
    \/ RunRecv
    \/ RunDecode
    \/ RunCall
    \/ RunAck
    \/ RunSend
    \/ MqSendReq
    \/ MqRecvRsp

\* Consumers('s', [f], timeout)
InitW == Constructed /\ timeout \in Timeouts /\ handler_funcs = {"s.f"}

SpecW == InitW /\ [][NextW]_vars

\* The threads are scheduled: a worker that can take a step eventually takes
\* one, and a join whose threads have ended returns.
Scheduled ==
    /\ \A w \in Names : WF_vars(Worker(w))
    /\ WF_vars(WaitReturn)

FairSpecW == SpecW /\ Scheduled

\* Consumers('s', [f, g], timeout): two workers, and clients that send requests
NextL ==
    \/ Start
    \/ Stop
    \/ WaitJoin
    \/ WaitReturn
    \/ RunLoop
    \/ RunRecv
    \/ RunDecode
    \/ RunCall
    \/ RunAck
    \/ RunSend
    \/ MqSendReqL

InitL == Constructed /\ timeout \in Timeouts /\ handler_funcs = Names

FairSpecL == InitL /\ [][NextL]_vars /\ Scheduled

(***************************************************************************)
(* send_message(service_name, func_name, params, rsp_to): MQ.send_req,     *)
(* MQ.recv_rsp with the timeout, TimeoutError when it returned nothing,    *)
(* MQ.ack_rsp, and the decoded response is returned.                       *)
(***************************************************************************)
\* req_id = MQ.send_req(service_name, func_name, json.dumps({"params": params}))
sm_send(c, name, p) ==
    /\ smpc[c] \in {"idle", "returned", "timeout"}
    /\ nreq < MaxMsg
    /\ nreq' = nreq + 1
    /\ kv' = [kv EXCEPT ![RequestKey(Uuids[nreq + 1])] = Dumps([k |-> "params", v |-> p])]
    /\ requests' = [requests EXCEPT ![name] = RQPush(@, Uuids[nreq + 1])]
    /\ sentOK' = sentOK \cup {<<name, Uuids[nreq + 1], Dumps([k |-> "params", v |-> p])>>}
    /\ smpc' = [smpc EXCEPT ![c] = "recv"]
    /\ sm_req_id' = [sm_req_id EXCEPT ![c] = Uuids[nreq + 1]]
    /\ sm_params' = [sm_params EXCEPT ![c] = p]
    /\ sm_rsp' = [sm_rsp EXCEPT ![c] = None]
    /\ sm_ret' = [sm_ret EXCEPT ![c] = PyNone]
    /\ sm_acks' = [sm_acks EXCEPT ![c] = 0]
    /\ UNCHANGED workerVars
    /\ UNCHANGED <<requestsAck, responses, responsesAck, published>>
    /\ UNCHANGED <<directVars, last>>
    /\ UNCHANGED <<popped, invoked, raised, wacks, wsent, sinceStop>>

\* a retrieval made with the identifier of the request sent last on the facade
sm_recv_latest(c, name, rsp_to) ==
    /\ smpc[c] = "recv"
    /\ IF RQCanPop(responses[ResponseKey(name, Uuids[nreq])])
       THEN /\ responses' = [responses EXCEPT ![ResponseKey(name, Uuids[nreq])] =
                                 RQPopPending(@)]
            /\ responsesAck' = [responsesAck EXCEPT ![ResponseKey(name, Uuids[nreq])] =
                                    RQPopProcessing(
                                        responses[ResponseKey(name, Uuids[nreq])], @)]
            /\ sm_rsp' = [sm_rsp EXCEPT ![c] =
                             Wire(RQPopped(responses[ResponseKey(name, Uuids[nreq])]))]
            /\ smpc' = [smpc EXCEPT ![c] = "ack"]
       ELSE /\ rsp_to > 0
            /\ sm_rsp' = [sm_rsp EXCEPT ![c] = Wire(None)]
            /\ smpc' = [smpc EXCEPT ![c] = "timeout"]
            /\ UNCHANGED <<responses, responsesAck>>
    /\ UNCHANGED workerVars
    /\ UNCHANGED <<kv, requests, requestsAck, published>>
    /\ UNCHANGED <<directVars, last, sentOK, workerHist>>
    /\ UNCHANGED <<sm_req_id, sm_params, sm_ret, sm_acks>>

\* rsp = MQ.recv_rsp(service_name, func_name, req_id, rsp_to)
\* if not rsp: raise TimeoutError(...)
\* (the call blocks for ever when rsp_to is 0 and no response comes)
sm_recv(c, name, rsp_to) ==
    /\ smpc[c] = "recv"
    /\ IF RQCanPop(responses[ResponseKey(name, sm_req_id[c])])
       THEN LET payload == Wire(RQPopped(responses[ResponseKey(name, sm_req_id[c])]))
            IN /\ responses' = [responses EXCEPT ![ResponseKey(name, sm_req_id[c])] =
                                    RQPopPending(@)]
               /\ responsesAck' = [responsesAck EXCEPT
                                       ![ResponseKey(name, sm_req_id[c])] =
                                           RQPopProcessing(
                                               responses[ResponseKey(name, sm_req_id[c])],
                                               @)]
               /\ sm_rsp' = [sm_rsp EXCEPT ![c] = payload]
               /\ smpc' = [smpc EXCEPT ![c] = IF Truthy(payload) THEN "ack" ELSE "timeout"]
       ELSE /\ rsp_to > 0
            /\ sm_rsp' = [sm_rsp EXCEPT ![c] = Wire(None)]
            /\ smpc' = [smpc EXCEPT ![c] = "timeout"]
            /\ UNCHANGED <<responses, responsesAck>>
    /\ UNCHANGED workerVars
    /\ UNCHANGED <<kv, requests, requestsAck, published>>
    /\ UNCHANGED <<directVars, last, sentOK, workerHist>>
    /\ UNCHANGED <<sm_req_id, sm_params, sm_ret, sm_acks>>

\* MQ.ack_rsp(service_name, func_name, req_id, rsp); return json.loads(rsp)
\* (json.loads raises on a response that is not JSON)
sm_ack(c, name) ==
    /\ smpc[c] = "ack"
    /\ responsesAck' = [responsesAck EXCEPT ![ResponseKey(name, sm_req_id[c])] =
                            RQAck(@, sm_rsp[c])]
    /\ sm_acks' = [sm_acks EXCEPT ![c] = @ + 1]
    /\ IF IsJson(sm_rsp[c])
       THEN /\ sm_ret' = [sm_ret EXCEPT ![c] = Loads(sm_rsp[c])]
            /\ smpc' = [smpc EXCEPT ![c] = "returned"]
       ELSE /\ smpc' = [smpc EXCEPT ![c] = "error"]
            /\ UNCHANGED sm_ret
    /\ UNCHANGED workerVars
    /\ UNCHANGED <<kv, requests, requestsAck, responses, published>>
    /\ UNCHANGED <<directVars, last, sentOK, workerHist>>
    /\ UNCHANGED <<sm_req_id, sm_params, sm_rsp>>

SmSend == \E c \in Callers, p \in Params : sm_send(c, CallerName[c], p)
SmRecv == \E c \in Callers, rsp_to \in Timeouts : sm_recv(c, CallerName[c], rsp_to)
SmAck == \E c \in Callers : sm_ack(c, CallerName[c])

\* Consumers('s', [f]) started or not, and callers of send_message('s', 'f', ...)
NextM ==
    \/ Start
    \/ RunLoop
    \/ RunRecv
    \/ RunDecode
    \/ RunCall
    \/ RunAck
    \/ RunSend
    \/ SmSend
    \/ SmRecv
    \/ SmAck

SpecM == InitW /\ [][NextM]_vars

(***************************************************************************)
(* The response notifications of one Sender, on channel "s.f". Its pubsub  *)
(* object (redis-py) holds the handler of the subscribed topic; the thread *)
(* run_in_thread starts reads the subscription's messages and calls the    *)
(* handler.  Messages published while the pubsub is not subscribed are not *)
(* delivered to it.                                                        *)
(***************************************************************************)
\* self.pubsub.subscribe(**{topic: _handler})
\* if not self.subscriber: self.subscriber = self.pubsub.run_in_thread(...)
set_rsp_handler(_handler) ==
    /\ ~closed
    /\ nset < MaxSet
    /\ nset' = nset + 1
    /\ channels' = _handler
    /\ cursor' = IF channels = "None" THEN Len(published) ELSE cursor
    /\ IF subscriber = "None"
       THEN subscriber' = "thread" /\ listeners' = listeners + 1
       ELSE UNCHANGED <<subscriber, listeners>>
    /\ UNCHANGED <<closed, notified>>
    /\ UNCHANGED <<redisVars, rcv, last, histVars>>
    /\ UNCHANGED <<workerVars, workerHist, callerVars>>

\* self.subscriber = None; return self.pubsub.unsubscribe(topic)
unset_rsp_handler ==
    /\ ~closed
    /\ subscriber' = "None"
    /\ channels' = "None"
    /\ UNCHANGED <<listeners, closed, nset, cursor, notified>>
    /\ UNCHANGED <<redisVars, rcv, last, histVars>>
    /\ UNCHANGED <<workerVars, workerHist, callerVars>>

\* Channel.close: if self.subscriber: self.subscriber.stop(); then
\* self.pubsub.unsubscribe() and self.pubsub.close()
close ==
    /\ ~closed
    /\ closed' = TRUE
    /\ listeners' = IF subscriber # "None" THEN listeners - 1 ELSE listeners
    /\ channels' = "None"
    /\ UNCHANGED <<subscriber, nset, cursor, notified>>
    /\ UNCHANGED <<redisVars, rcv, last, histVars>>
    /\ UNCHANGED <<workerVars, workerHist, callerVars>>

\* a listener thread reads the next message of the topic and calls the handler
listener_notify ==
    /\ listeners > 0
    /\ channels # "None"
    /\ cursor < Len(published)
    /\ cursor' = cursor + 1
    /\ notified' = Append(notified, <<channels, published[cursor + 1][2]>>)
    /\ UNCHANGED <<subscriber, channels, listeners, closed, nset>>
    /\ UNCHANGED <<redisVars, rcv, last, histVars>>
    /\ UNCHANGED <<workerVars, workerHist, callerVars>>

\* a listener thread of a pubsub that is subscribed to nothing may end by itself
\* (redis-py 2.x: its loop is `while pubsub.subscribed`); in later versions it
\* runs until stop() is called on it
listener_exit ==
    /\ listeners > 0
    /\ channels = "None"
    /\ listeners' = listeners - 1
    /\ UNCHANGED <<subscriber, channels, closed, nset, cursor, notified>>
    /\ UNCHANGED <<redisVars, rcv, last, histVars>>
    /\ UNCHANGED <<workerVars, workerHist, callerVars>>

SetRspHandler == \E _handler \in Handlers : set_rsp_handler(_handler)
UnsetRspHandler == unset_rsp_handler
Close == close
ListenerNotify == listener_notify
ListenerExit == listener_exit
\* a Receiver of the channel answers requests
SendRspOk == \E _id \in Ids : send_rsp_push("r1", "s.f", _id, <<"result", "x1">>, TRUE)

\* a Sender that sets and unsets its response handler while a Receiver sends responses
NextSub ==
    \/ SetRspHandler
    \/ UnsetRspHandler
    \/ Close
    \/ ListenerNotify
    \/ ListenerExit
    \/ SendRspOk
    \/ SendRspPublish

SpecSub == Init /\ [][NextSub]_vars

(***************************************************************************)
(* Properties of the request side (Spec).                                  *)
(***************************************************************************)
IsRecv(c) == c.op \in {"recv_req", "get_req"} /\ c.ok

\* the identifier was named by one send_req call, which returned it, and ack_req
\* was called on it only after a receiver had been handed it
UsedOnce(i) ==
    /\ nsend[i] = 1
    /\ i \notin earlyAck
    /\ \E n \in Names, v \in ReqPayloads : <<n, i, v>> \in sentOK

\* C1: round trip. When a recv_req/get_req call returns an identifier that one
\* send_req call returned (and that nobody else uses), the payload it returns
\* with it is the payload that send_req call was given.
C1_RoundTrip ==
    \A i \in Ids :
        (IsRecv(last) /\ last.id = i /\ UsedOnce(i))
            => \E n \in Names : <<n, i, last.val>> \in sentOK

\* C1 witness: A's payload comes back while another receiver is in the middle of
\* receiving B, which was sent with a different payload.
C1_Witness ==
    /\ IsRecv(last) /\ last.id = "A" /\ UsedOnce("A")
    /\ last.val = <<"params", "x1">>
    /\ <<"s.f", "B", <<"params", "x2">>>> \in sentOK
    /\ \E r \in Rcv : rcv[r].pc = "get" /\ rcv[r].id = "B"

\* C2: send_req is all-or-nothing. A send_req call that returns no identifier
\* leaves the payload store and the request queue as they were.
C2_AllOrNothing ==
    [][(nsend' # nsend /\ last'.op = "send_req" /\ ~last'.ok)
          => (kv' = kv /\ requests' = requests)]_vars

\* C3: after ack_req(id) succeeded, and until id is sent again, the payload of id
\* is absent from the store and a recv_req/get_req call that returns id returns
\* no payload with it.
C3_AckDeletes ==
    \A i \in acked :
        /\ kv[RequestKey(i)] = None
        /\ (IsRecv(last) /\ last.id = i) => last.val = None

\* C3 witness: an identifier queued twice is received, acknowledged with success,
\* and then returned again by a later call.
C3_Witness ==
    /\ "A" \in acked
    /\ IsRecv(last) /\ last.id = "A"
    /\ <<"s.f", "A", <<"params", "x1">>>> \in sentOK

\* every send_req call made so far stored the payload, pushed the identifier and
\* returned it
NoSendFailed == Total(nsend) = Cardinality(sentOK)

\* C13: ack_req is a failure-atomic pair. Even when no send_req failed: an
\* ack_req call returns True exactly when its queue acknowledgment removed the
\* identifier from the processing list and its DEL removed the payload, and a
\* call that returns False has changed neither the queue nor the payload store.
C13_AckAtomic ==
    [][NoSendFailed =>
          \A r \in Rcv :
              /\ (rcv[r].pc = "del" /\ rcv'[r].pc = "idle") =>
                     /\ last'.ok
                     /\ kv[RequestKey(rcv[r].id)] # None
                     /\ kv'[RequestKey(rcv[r].id)] = None
              /\ (last'.op = "ack_req" /\ rcv' = rcv) =>
                     (~last'.ok /\ kv' = kv /\ requestsAck' = requestsAck)]_vars

\* the identifier waits in a request queue, or was received and is not acknowledged
Outstanding(i) ==
    \E n \in Names : Count(requests[n], i) > 0 \/ Count(requestsAck[n], i) > 0

\* C15: every identifier that was used by one send_req call only and that is
\* pending in a request queue, or was received and is not yet acknowledged, has
\* its payload in the payload store.
C15_PayloadPresent ==
    \A i \in Ids : (nsend[i] <= 1 /\ Outstanding(i)) => kv[RequestKey(i)] # None

\* C17: ack_req deletes a payload only after its queue acknowledgment of that
\* identifier succeeded. A payload leaves the store only in the second step of an
\* ack_req call whose first step took the identifier off the processing list; and
\* an ack_req whose queue acknowledgment fails returns False and leaves the store
\* as it was.
C17_DeleteAfterAck ==
    /\ [][\A i \in Ids :
             (kv[RequestKey(i)] # None /\ kv'[RequestKey(i)] = None) =>
                 \E r \in Rcv : /\ rcv[r].pc = "del" /\ rcv[r].id = i
                                 /\ rcv'[r].pc = "idle"]_vars
    /\ [][\A r \in Rcv :
             (rcv[r].pc = "idle" /\ rcv'[r].pc = "del") =>
                 /\ RQAckOk(requestsAck[rcv'[r].name], rcv'[r].id)
                 /\ kv' = kv]_vars
    /\ [][(last'.op = "ack_req" /\ rcv' = rcv) =>
             (~last'.ok /\ kv' = kv /\ requestsAck' = requestsAck)]_vars

\* C17 witness: ack_req was called on an identifier that is still pending (never
\* received); it returned False and the payload is still stored.
C17_Witness ==
    /\ last.op = "ack_req" /\ ~last.ok
    /\ "A" \in earlyAck /\ Count(requests["s.f"], "A") = 1
    /\ kv[RequestKey("A")] = <<"params", "x1">>

\* the recv_req/get_req calls that have popped the identifier and not yet returned
Receiving(i) == {r \in Rcv : rcv[r].pc = "get" /\ rcv[r].id = i}

\* C18: an identifier that one send_req call pushed is returned by at most one
\* recv_req/get_req call, whatever the interleaving of the receivers: at most one
\* call is about to return it, none once a call has returned it, and once popped
\* it is in no request queue.
C18_OneReceiver ==
    \A i \in Ids :
        nsend[i] <= 1 =>
            /\ Cardinality(Receiving(i)) + (IF i \in returned THEN 1 ELSE 0) <= 1
            /\ (Receiving(i) # {} \/ i \in returned) =>
                   \A n \in Names : Count(requests[n], i) = 0

\* C18 witness: two receivers are receiving at the same time, each a different
\* identifier of the same channel.
C18_Witness ==
    /\ nsend["A"] = 1 /\ nsend["B"] = 1
    /\ rcv["r1"].pc = "get" /\ rcv["r1"].id = "A"
    /\ rcv["r2"].pc = "get" /\ rcv["r2"].id = "B"

\* C20: request payloads are keyed by the identifier alone. On whatever channels
\* an identifier is sent, the store holds for it the payload of the last send_req
\* that named it, until the first successful ack_req of it, and nothing after
\* that until it is sent again; a recv_req that returns the identifier returns
\* what the store then holds: the last payload written, or no payload once the
\* identifier was acknowledged.
C20_KeyedByIdAlone ==
    /\ \A i \in Ids :
           kv[RequestKey(i)] = IF i \in acked THEN None ELSE written[i]
    /\ IsRecv(last) =>
           last.val = IF last.id \in acked THEN None ELSE written[last.id]

\* C20 witness: A was sent on s.f with one payload and then on s.g with another;
\* the receiver of s.f was handed A with the second payload and acknowledged it,
\* and the receiver of s.g was then handed A with no payload.
C20_Witness ==
    /\ sentOK = {<<"s.f", "A", <<"params", "x1">>>>, <<"s.g", "A", <<"params", "x2">>>>}
    /\ written["A"] = <<"params", "x2">>
    /\ "A" \in acked /\ requestsAck["s.f"] = << >>
    /\ IsRecv(last) /\ last.id = "A" /\ last.val = None
    /\ requestsAck["s.g"] = <<"A">>

(***************************************************************************)
(* Properties of the response side (SpecRsp).                              *)
(***************************************************************************)
\* C4: every response that send_rsp(id, P) pushed with success is either still
\* waiting in id's response queue or has been returned by exactly one
\* recv_rsp/get_rsp call: the calls that returned P for id and the copies of P
\* still queued add up to the successful send_rsp(id, P) calls. A response that
\* was retrieved (acknowledged or not) is never returned again.
C4_OneRetrieval ==
    \A k \in RspKeys :
        /\ pushed[k] = got[k] + Count(responses[ResponseKey(k[1], k[2])], k[3])
        /\ Count(responsesAck[ResponseKey(k[1], k[2])], k[3]) <= got[k]

\* C4 witness: a response was pushed once, retrieved once and acknowledged, and a
\* later retrieval for the same identifier returned nothing.
C4_Witness ==
    \E k \in RspKeys :
        /\ pushed[k] = 1 /\ got[k] = 1
        /\ responsesAck[ResponseKey(k[1], k[2])] = << >>
        /\ responses[ResponseKey(k[1], k[2])] = << >>
        /\ last.op = "get_rsp" /\ ~last.ok
        /\ \A k2 \in RspKeys : k2 # k => pushed[k2] = 0

\* the send_rsp calls for (name, id) whose push succeeded
Pushes(name, id) ==
    LET RECURSIVE Sum(_)
        Sum(S) == IF S = {} THEN 0
                  ELSE LET v == CHOOSE v \in S : TRUE
                       IN pushed[<<name, id, v>>] + Sum(S \ {v})
    IN Sum(RspPayloads)
\* the send_rsp calls for (name, id) that have pushed and not yet published
Publishing(name, id) ==
    Cardinality({r \in Rcv : rcv[r].pc = "pub" /\ rcv[r].name = name /\ rcv[r].id = id})

\* C12: send_rsp publishes after a successful push only. The notifications
\* published for an identifier are the successful pushes for it, less the calls
\* that have pushed and are about to publish; a notification is published by a
\* call that has pushed, and carries that call's identifier; and a send_rsp whose
\* push failed returns False with nothing pushed and nothing published.
C12_PublishAfterPush ==
    /\ [](\A n \in Names, i \in Ids :
             Count(published, <<n, i>>) + Publishing(n, i) = Pushes(n, i))
    /\ [][published' # published =>
             \E r \in Rcv : /\ rcv[r].pc = "pub" /\ rcv'[r].pc = "idle"
                             /\ published' = Append(published, <<rcv[r].name, rcv[r].id>>)
                             /\ last'.op = "send_rsp" /\ last'.ok]_vars
    /\ [][(nrsp' # nrsp /\ rcv' = rcv) =>
             /\ last'.op = "send_rsp" /\ ~last'.ok
             /\ published' = published /\ responses' = responses]_vars

\* C12 witness: one send_rsp pushed and published, and the next one's push failed.
C12_Witness ==
    /\ nrsp = 2 /\ Len(published) = 1
    /\ last.op = "send_rsp" /\ ~last.ok
    /\ \A r \in Rcv : rcv[r].pc = "idle"

(***************************************************************************)
(* Properties of the worker runtime (SpecW, FairSpecW, FairSpecL).         *)
(***************************************************************************)
\* whether json.loads(payload)['params'] returns
Decodable(payload) == IsJson(payload) /\ Loads(payload).k = "params"
\* the payloads a worker may answer a request of this payload with
Answers(payload) ==
    IF Decodable(payload)
    THEN {<<"result", Loads(payload).v>>, <<"error", "handler">>}
    ELSE {<<"error", "parse">>}
\* no worker is in the middle of the iteration for identifier i
Settled(i) == \A w \in Names : req_id[w] # i
\* the elements of a sequence
Range(seq) == {seq[j] : j \in 1..Len(seq)}

\* C5: no cross-delivery. A response that recv_rsp returns for an identifier is
\* one a worker sent for that identifier, and it answers the request that was
\* sent under that identifier (it echoes that request's parameters), never
\* another request's.
C5_NoCrossDelivery ==
    (last.op = "recv_rsp" /\ last.ok /\ nreq > 0)
        => /\ last.val \in Range(wsent[last.id])
           /\ \E n \in Names, p \in ReqPayloads :
                  <<n, last.id, p>> \in sentOK /\ last.val \in Answers(p)

\* C5 witness: two requests with different parameters were outstanding on one
\* worker, both were answered, and the second one's response was retrieved while
\* the first one's still waits.
C5_Witness ==
    /\ <<"s.f", "u1", <<"params", "x1">>>> \in sentOK
    /\ <<"s.f", "u2", <<"params", "x2">>>> \in sentOK
    /\ last.op = "recv_rsp" /\ last.id = "u2" /\ last.val = <<"result", "x2">>
    /\ responses[ResponseKey("s.f", "u1")] = << <<"result", "x1">> >>

\* C6: when the handler raised for a request, the worker sends one response for
\* the request's identifier, an error payload naming the handler failure, and
\* acknowledges the request once (its payload is then gone from the store).
C6_HandlerRaises ==
    \A i \in raised :
        /\ wacks[i] <= 1 /\ Len(wsent[i]) <= 1
        /\ \A p \in Range(wsent[i]) : p = <<"error", "handler">>
        /\ Settled(i) => /\ wacks[i] = 1
                         /\ wsent[i] = << <<"error", "handler">> >>
                         /\ kv[RequestKey(i)] = None
                         /\ \A n \in Names : ~RQAckOk(requestsAck[n], i)

\* C6 witness: the handler raised for u1 and the worker finished that iteration.
C6_Witness ==
    /\ "u1" \in raised /\ Settled("u1")
    /\ wsent["u1"] = << <<"error", "handler">> >>
    /\ wacks["u1"] = 1

\* C7: a response is always produced. Every request a worker's recv_req returned,
\* whatever its payload, has been acknowledged and answered once the worker is
\* done with it.
C7_AlwaysAnswered ==
    \A i \in popped : Settled(i) => (wacks[i] >= 1 /\ Len(wsent[i]) >= 1)

\* C8: when decoding a request's payload fails, the handler is not invoked for
\* that request and every response sent for it is the error payload of the
\* decoding failure.
C8_DecodeFailure ==
    \A n \in Names, i \in AllIds, p \in ReqPayloads :
        (<<n, i, p>> \in sentOK /\ ~Decodable(p) /\ nreq > 0)
            => /\ i \notin invoked
               /\ \A q \in Range(wsent[i]) : q = <<"error", "parse">>

\* C8 witness: a request whose payload is not JSON was answered.
C8_Witness ==
    /\ <<"s.f", "u1", <<"garbage">>>> \in sentOK
    /\ wsent["u1"] = << <<"error", "parse">> >>
    /\ Settled("u1")

\* C16: the response is pushed before the request is acknowledged. In no state has
\* a worker acknowledged a request (deleting its payload) for whose identifier it
\* has pushed no response.
C16_ResponseBeforeAck ==
    \A i \in AllIds : wacks[i] >= 1 => Len(wsent[i]) >= 1

\* C19: stop() never abandons an in-flight request. A worker leaves its loop only
\* from the top of the loop, with no request in hand; and when a worker has left
\* its loop, every request it was handed with a non-empty payload has been
\* acknowledged once and answered once, and no request it dequeued is
\* acknowledged but unanswered or answered but unacknowledged. (A thread that
\* json.dumps ended with TypeError has not left its loop because of stop().)
C19_StopKeepsInFlight ==
    /\ [](\A w \in Names :
             thread[w] = "exited" =>
                 /\ req_id[w] = NoneId /\ wpc[w] = "loop"
                 /\ \A i \in popped, p \in ReqPayloads :
                        <<w, i, p>> \in sentOK =>
                            /\ Truthy(p) => (wacks[i] = 1 /\ Len(wsent[i]) = 1)
                            /\ wacks[i] >= 1 <=> Len(wsent[i]) >= 1)
    /\ [][\A w \in Names :
             (thread'[w] = "exited" /\ thread[w] # "exited") =>
                 (~running /\ wpc[w] = "loop" /\ req_id[w] = NoneId)]_vars

\* C19 witness: the flag was cleared while the worker was blocked in a receive
\* without timeout; the worker then received u1, acknowledged and answered it, and
\* only then left its loop.
C19_Witness ==
    /\ timeout = 0 /\ nreq = 1 /\ ~running
    /\ thread["s.f"] = "exited" /\ sinceStop["s.f"] = 1
    /\ wacks["u1"] = 1 /\ wsent["u1"] = << <<"result", "x1">> >>

\* a worker is finishing an iteration whose handler raised or whose decoding failed
Faulted(w) == thread[w] = "started" /\ wpc[w] \in {"ack", "send"} /\ rsp[w].k = "error"

\* C9: a handler fault never ends the worker loop. A worker thread ends only by
\* leaving the loop with the flag cleared or by json.dumps failing on a handler's
\* result, never in an iteration whose handler raised or whose decoding failed;
\* and after such an iteration the worker is back at its receive (or has left
\* the loop because the flag was cleared).
C9_FaultKeepsLoop ==
    /\ [][\A w \in Names :
            /\ (thread'[w] = "dead" /\ thread[w] # "dead") => rsp[w].k = "object"
            /\ (thread'[w] = "exited" /\ thread[w] # "exited") => ~running]_vars
    /\ \A w \in Names :
           Faulted(w) ~> ((thread[w] = "started" /\ wpc[w] = "recv")
                              \/ thread[w] = "exited")

\* C9 witness: after an iteration whose handler raised, the worker has received
\* the next request.
C9_Witness ==
    /\ "u1" \in raised /\ Len(wsent["u1"]) = 1
    /\ thread["s.f"] = "started" /\ req_id["s.f"] = "u2" /\ wpc["s.f"] = "decode"

\* start() was called, and the flag is cleared
Stopped == ~running /\ \A w \in handler_funcs : thread[w] # "new"
AllEnded == \A w \in handler_funcs : thread[w] \in {"exited", "dead"}

\* C10: with a positive timeout, once stop() has cleared the flag for good after
\* start(), every worker's thread ends and a wait() in progress returns; and a
\* worker begins at most one more receive after the flag was cleared.
C10_StopEnds ==
    /\ (timeout > 0 /\ <>[]Stopped)
           => (<>AllEnded /\ (waitpc = "joining" ~> waitpc = "returned"))
    /\ [](~running => \A w \in Names : sinceStop[w] <= 1)

\* C10 witness: both workers have ended after stop(), one of them after a
\* receive it began with the flag already cleared, and wait() has returned.
C10_Witness ==
    /\ timeout > 0 /\ ~running /\ AllEnded /\ waitpc = "returned"
    /\ handler_funcs = Names
    /\ \E w \in Names : sinceStop[w] = 1 /\ thread[w] = "exited"
(***************************************************************************)
(* Properties of send_message (SpecM).                                     *)
(***************************************************************************)
\* C11: a send_message call sends one request. When it returns, it has retrieved
\* a response a worker sent for that request's identifier, one that answers the
\* caller's own parameters, has acknowledged it once (it is gone from the
\* processing list) and returns it decoded. When it raises TimeoutError it has
\* retrieved and acknowledged nothing.
C11_SendMessage ==
    \A c \in Callers :
        /\ smpc[c] # "idle" =>
               /\ <<CallerName[c], sm_req_id[c], <<"params", sm_params[c]>>>> \in sentOK
               /\ \A d \in Callers : (d # c /\ smpc[d] # "idle") => sm_req_id[d] # sm_req_id[c]
        /\ smpc[c] = "returned" =>
               /\ sm_acks[c] = 1
               /\ sm_ret[c] = Loads(sm_rsp[c])
               /\ sm_rsp[c] \in Range(wsent[sm_req_id[c]])
               /\ sm_rsp[c] \in Answers(<<"params", sm_params[c]>>)
               /\ responsesAck[ResponseKey(CallerName[c], sm_req_id[c])] = << >>
        /\ smpc[c] = "timeout" =>
               /\ sm_acks[c] = 0
               /\ ~Truthy(sm_rsp[c])
               /\ responsesAck[ResponseKey(CallerName[c], sm_req_id[c])] = << >>
        /\ smpc[c] # "error"

\* C11 witness: of two callers with different parameters, one got its own
\* response back and the other timed out, its response arriving afterwards.
C11_Witness ==
    /\ smpc["c1"] = "returned" /\ sm_params["c1"] = "x1"
    /\ sm_ret["c1"] = [k |-> "result", v |-> "x1"]
    /\ smpc["c2"] = "timeout" /\ sm_params["c2"] = "x2"
    /\ responses[ResponseKey("s.f", sm_req_id["c2"])] = << <<"result", "x2">> >>
(***************************************************************************)
(* Properties of the Sender's response handler (SpecSub).                  *)
(***************************************************************************)
\* C14: at most one notification subscription with its listener is active for a
\* Sender, whatever set_rsp_handler and unset_rsp_handler calls were made: at most
\* one listener thread runs, and when the last call was unset_rsp_handler (no
\* thread is referenced, nothing is subscribed) none runs.
C14_OneListener ==
    /\ listeners <= 1
    /\ (subscriber = "None" /\ channels = "None" /\ ~closed) => listeners = 0
====
